---- MODULE Spec2Model ----
(***************************************************************************)
(* The asyncio dispatch loops of pysiaalarm (aio/server.py): the TCP and   *)
(* Osborne-Hoffman (OH) stream handlers SIAServerTCP.handle_line and       *)
(* SIAServerOH.handle_line, and the datagram protocol SIAServerUDP,        *)
(* together with the outer frame lexer of utils/regexes.py.                *)
(*                                                                         *)
(* One server object exists per run; `protocol` says which class it is.    *)
(* A handle_line coroutine is cut at its suspension points (the awaits):   *)
(* everything between two awaits is one atomic step of the event loop.     *)
(***************************************************************************)
EXTENDS Integers, Sequences, FiniteSets, TLC

\* ------------------------------------------------------------------ bounds
\* Stream reads that deliver data, over all connections of the server.
MaxReads == 2
\* Datagrams delivered to the UDP protocol object.
MaxDatagrams == 2

\* The accepted stream connections (handle_line tasks) of the server.
Conns == {"c1", "c2"}
\* Source addresses of datagrams.
Addrs == {"a1", "a2"}
\* Scrambled keys an OsborneHoffman() context can hold.
Keys == {"k1", "k2"}
\* The keys a new context can draw: the first key drawn in a run is named
\* "k1"; a later draw repeats a key already drawn or takes a new one.
NewKeys(used) == IF used = {} THEN {"k1"} ELSE Keys
\* OH seeds an account of the accounts map can carry.
Seeds == {"s1", "s2"}
\* The key field of bytes that are not OH-wrapped.
NoKey == "clear"

\* ------------------------------------------------------------ wire frames
\* A frame as the peer builds it: the message type between the quotes, and
\* whether account, CRC/length, timestamp and event code are acceptable.
MessageTypes == {"SIA-DCS", "ADM-CID", "NULL"}

FAck == [mt |-> "SIA-DCS", acct |-> TRUE, crc |-> TRUE, ts |-> TRUE, code |-> TRUE]
FAdm == [FAck EXCEPT !.mt = "ADM-CID"]
FNull == [FAck EXCEPT !.mt = "NULL"]
FAcct == [FAck EXCEPT !.acct = FALSE]
FCrc == [FAck EXCEPT !.crc = FALSE]
FTs == [FAck EXCEPT !.ts = FALSE]
FCode == [FAck EXCEPT !.code = FALSE]
FFoo == [FAck EXCEPT !.mt = "FOO"]

Frames == {FAck, FAdm, FNull, FAcct, FCrc, FTs, FCode, FFoo}

\* A piece of the byte stream: a whole frame, the head of a frame cut after
\* its "[" (headL) or before it (headS), or the tail that completes a frame.
PWhole(f) == [f |-> f, part |-> "whole"]
PHeadL(f) == [f |-> f, part |-> "headL"]
PHeadS(f) == [f |-> f, part |-> "headS"]
PTail(f) == [f |-> f, part |-> "tail"]
PGarbage == [f |-> FAck, part |-> "garbage"]

\* What one read(1000) or one datagram carries when the peer's frames
\* arrive one per read: a whole frame.  <<>> is EMPTY_BYTES.
EMPTY_BYTES == <<>>
Chunks == {<<PWhole(f)>> : f \in Frames}

\* What a read(1000) of a byte stream can carry besides: two frames back to
\* back, or a part of a frame.
StreamChunks ==
    Chunks \cup {<<PWhole(FAck), PWhole(FNull)>>,
                 <<PHeadL(FAck)>>, <<PHeadS(FAck)>>, <<PTail(FAck)>>}

\* main_regex: the header up to "[" must be present and the message type
\* must be one of the three alternatives of the message_type group.
MAIN_MATCHER(piece) ==
    /\ piece.part \in {"whole", "headL"}
    /\ piece.f.mt \in MessageTypes

\* Response selection for a lexed piece: the pipeline answers NAK for an
\* unknown account, a truncated or undecodable body, a CRC/length mismatch
\* or a timestamp out of the window; then DUH for an unrecognised code,
\* RSP for a NULL heartbeat and ACK for a SIA-DCS or ADM-CID event.
response_type(piece) ==
    IF ~piece.f.acct THEN "NAK"
    ELSE IF piece.part # "whole" THEN "NAK"
    ELSE IF ~piece.f.crc THEN "NAK"
    ELSE IF ~piece.f.ts THEN "NAK"
    ELSE IF ~piece.f.code THEN "DUH"
    ELSE IF piece.f.mt = "NULL" THEN "RSP"
    ELSE "ACK"

NoEvent == [response |-> "none"]

\* The pipeline on the bytes of one read or datagram: the lexer is applied
\* once, at the start of the bytes, and yields at most one event.
parse_and_check_event(data) ==
    IF data = EMPTY_BYTES THEN NoEvent
    ELSE IF ~MAIN_MATCHER(Head(data)) THEN NoEvent
    ELSE [response |-> response_type(Head(data))]

\* event.create_response(): the response frame, named by its type.
create_response(event) == event.response

\* The frames that a chunk completes and that the lexer accepts when they
\* stand alone (a tail completes the frame its head began).
RECURSIVE LexableFrames(_)
LexableFrames(data) ==
    IF data = <<>> THEN 0
    ELSE (IF Head(data).part \in {"whole", "tail"} /\ Head(data).f.mt \in MessageTypes
          THEN 1 ELSE 0) + LexableFrames(Tail(data))

\* The peer sends whole frames one after the other; a read cuts the byte
\* stream anywhere.  A chunk fits the stream when it begins with a tail
\* exactly if the bytes before it ended inside a frame.
FitsStream(data, inside) ==
    data # <<>> => ((Head(data).part = "tail") <=> inside)
EndsPartial(data, inside) ==
    IF data = <<>> THEN inside
    ELSE data[Len(data)].part \in {"headL", "headS"}

\* ------------------------------------------------------ OH obfuscation
\* Bytes on an OH connection carry the key they were wrapped with.
\* decrypt_data yields the wrapped bytes under the matching key and bytes
\* that lex as nothing under any other key.
Garbage == <<PGarbage>>
decrypt_data(oh, data) == IF data.key = oh THEN data.body ELSE Garbage
encrypt_data(oh, response) == [key |-> oh, body |-> response]
Clear(bytes) == [key |-> NoKey, body |-> bytes]

\* Where an event comes from: a stream connection or the datagram socket.
Sources == Conns \cup {"udp"}

\* ------------------------------------------------------------------ state
VARIABLES
    protocol,       \* the class of the server object: "TCP", "OH" or "UDP"
    accounts,       \* the accounts given to the constructor: their OH seed
    shutdown_flag,  \* BaseSIAServer.shutdown_flag
    counts,         \* the Counter: errors.user_code
    pc,             \* per connection: where its handle_line task stands
    oh,             \* per connection: the scrambled key of its OH context
    event,          \* per connection: the event of the current iteration
    nread,          \* per connection: reads that delivered data so far
    sent,           \* per connection: lexable frames the peer has sent
    partial,        \* per connection: the peer has sent a frame's head only
    trace,          \* per connection: the calls made on its reader/writer
    wbuf,           \* per connection: bytes written and not yet drained
    sinks,          \* per source: invocations of the user sink, in order
    transport,      \* SIAServerUDP.transport: "none", "open" or "closed"
    ndgram,         \* datagrams received so far
    tasks,          \* tasks made by asyncio.create_task, in order
    udplog          \* the calls of the UDP protocol object, in order

vars == <<protocol, accounts, shutdown_flag, counts, pc, oh, event, nread, sent,
          partial, trace, wbuf, sinks, transport, ndgram, tasks, udplog>>
conn_vars == <<pc, oh, event, nread, sent, partial, trace, wbuf>>
udp_vars == <<transport, ndgram, tasks, udplog>>

Init ==
    /\ protocol \in {"TCP", "OH", "UDP"}
    /\ accounts = "s1"
    /\ shutdown_flag = FALSE
    /\ counts = [user_code |-> 0]
    /\ pc = [c \in Conns |-> "idle"]
    /\ oh = [c \in Conns |-> NoKey]
    /\ event = [c \in Conns |-> NoEvent]
    /\ nread = [c \in Conns |-> 0]
    /\ sent = [c \in Conns |-> 0]
    /\ partial = [c \in Conns |-> FALSE]
    /\ trace = [c \in Conns |-> <<>>]
    /\ wbuf = [c \in Conns |-> <<>>]
    /\ sinks = [src \in Sources |-> <<>>]
    /\ transport = "none"
    /\ ndgram = 0
    /\ tasks = <<>>
    /\ udplog = <<>>

RECURSIVE Sum(_, _)
Sum(f, S) ==
    IF S = {} THEN 0
    ELSE LET x == CHOOSE y \in S : TRUE IN f[x] + Sum(f, S \ {x})
TotalReads == Sum(nread, Conns)

\* One call on a connection's reader or writer, in iteration k of the loop;
\* for a write, the key the bytes written are wrapped with.
Op(op, k, key) == [op |-> op, k |-> k, key |-> key]
Log(c, ops) == trace' = [trace EXCEPT ![c] = trace[c] \o ops]

\* --------------------------------------------------------- the user sink
\* async_func_wrap(event): only an ACK or RSP event is handed to the user
\* sink; the sink runs as its own invocation, failures caught and counted.
async_func_wrap(src, k, ev) ==
    IF ev.response \in {"ACK", "RSP"}
    THEN [sinks EXCEPT ![src] = Append(@, [k |-> k, st |-> "running"])]
    ELSE sinks

\* Whether `await self.async_func_wrap(event)` lets connection c go on: the
\* sink invocation is spawned, its completion is not waited for.
async_func_wrap_returns(c) == TRUE

\* The user sink completes.
sink_returns(src, i) ==
    /\ sinks[src][i].st = "running"
    /\ sinks' = [sinks EXCEPT ![src][i].st = "done"]
    /\ UNCHANGED <<protocol, accounts, shutdown_flag, counts, conn_vars, udp_vars>>

\* The user sink raises: caught by the wrapper and counted.
sink_raises(src, i) ==
    /\ sinks[src][i].st = "running"
    /\ sinks' = [sinks EXCEPT ![src][i].st = "raised"]
    /\ counts' = [counts EXCEPT !.user_code = @ + 1]
    /\ UNCHANGED <<protocol, accounts, shutdown_flag, conn_vars, udp_vars>>

\* The owner of the server sets shutdown_flag.
shutdown ==
    /\ ~shutdown_flag
    /\ shutdown_flag' = TRUE
    /\ UNCHANGED <<protocol, accounts, counts, conn_vars, sinks, udp_vars>>

\* ------------------------------------------- SIAServerTCP.handle_line
\* writer.close() after the loop: the coroutine ends.  `result` is what
\* the reader gave when a break ended the loop ("eof" for empty bytes or
\* at_eof(), "reset" for ConnectionResetError), <<>> at the loop head.
close(c, result) ==
    /\ pc' = [pc EXCEPT ![c] = "done"]
    /\ Log(c, result \o <<Op("close", nread[c] + 1, NoKey)>>)

\* A connection is accepted: asyncio starts handle_line(reader, writer).
TCP_accept(c) ==
    /\ protocol = "TCP"
    /\ pc[c] = "idle"
    /\ pc' = [pc EXCEPT ![c] = "loop"]
    /\ UNCHANGED <<oh, event, nread, sent, partial, trace, wbuf>>
    /\ UNCHANGED <<protocol, accounts, shutdown_flag, counts, sinks, udp_vars>>

\* TCP_loop with `while True`: the flag is not looked at.
TCP_loop_ignores_flag(c) ==
    /\ protocol = "TCP"
    /\ pc[c] = "loop"
    /\ pc' = [pc EXCEPT ![c] = "read"]
    /\ UNCHANGED <<oh, event, nread, sent, partial, trace, wbuf>>
    /\ UNCHANGED <<protocol, accounts, shutdown_flag, counts, sinks, udp_vars>>

\* The loop head: `while True and not self.shutdown_flag`; when the flag
\* is clear the read is issued, otherwise the loop ends and the writer is
\* closed.
TCP_loop(c) ==
    /\ protocol = "TCP"
    /\ pc[c] = "loop"
    /\ IF shutdown_flag
       THEN close(c, <<>>)
       ELSE /\ pc' = [pc EXCEPT ![c] = "read"]
            /\ UNCHANGED trace
    /\ UNCHANGED <<oh, event, nread, sent, partial, wbuf>>
    /\ UNCHANGED <<protocol, accounts, shutdown_flag, counts, sinks, udp_vars>>

\* reader.read(1000) raises ConnectionResetError: break, writer.close().
TCP_read_reset(c) ==
    /\ protocol = "TCP"
    /\ pc[c] = "read"
    /\ close(c, <<Op("reset", nread[c] + 1, NoKey)>>)
    /\ UNCHANGED <<oh, event, nread, sent, partial, wbuf>>
    /\ UNCHANGED <<protocol, accounts, shutdown_flag, counts, sinks, udp_vars>>

\* TCP_read_data without the `await writer.drain()`: the event goes to
\* async_func_wrap as soon as its response is written.
TCP_read_data_no_drain(c, data, at_eof) ==
    /\ protocol = "TCP"
    /\ pc[c] = "read"
    /\ sent' = [sent EXCEPT ![c] = @ + LexableFrames(data)]
    /\ partial' = [partial EXCEPT ![c] = EndsPartial(data, @)]
    /\ IF data = EMPTY_BYTES \/ at_eof
       THEN /\ close(c, <<Op("eof", nread[c] + 1, NoKey)>>)
            /\ UNCHANGED <<event, nread, wbuf, sinks>>
       ELSE /\ TotalReads < MaxReads
            /\ nread' = [nread EXCEPT ![c] = @ + 1]
            /\ LET ev == parse_and_check_event(data)
                   k == nread[c] + 1
               IN /\ event' = [event EXCEPT ![c] = ev]
                  /\ IF ev = NoEvent
                     THEN /\ pc' = [pc EXCEPT ![c] = "loop"]
                          /\ Log(c, <<Op("read", k, NoKey)>>)
                          /\ UNCHANGED <<wbuf, sinks>>
                     ELSE /\ pc' = [pc EXCEPT ![c] = "wrap"]
                          /\ Log(c, <<Op("read", k, NoKey), Op("write", k, NoKey)>>)
                          /\ wbuf' = [wbuf EXCEPT ![c] =
                                         Append(@, Clear(create_response(ev)))]
                          /\ sinks' = async_func_wrap(c, k, ev)
    /\ UNCHANGED oh
    /\ UNCHANGED <<protocol, accounts, shutdown_flag, counts, udp_vars>>

\* TCP_read_data with `break` where the code has `continue`: bytes that
\* yield no event end the loop.
TCP_read_data_break(c, data, at_eof) ==
    /\ protocol = "TCP"
    /\ pc[c] = "read"
    /\ sent' = [sent EXCEPT ![c] = @ + LexableFrames(data)]
    /\ partial' = [partial EXCEPT ![c] = EndsPartial(data, @)]
    /\ IF data = EMPTY_BYTES \/ at_eof
       THEN /\ close(c, <<Op("eof", nread[c] + 1, NoKey)>>)
            /\ UNCHANGED <<event, nread, wbuf>>
       ELSE /\ TotalReads < MaxReads
            /\ nread' = [nread EXCEPT ![c] = @ + 1]
            /\ LET ev == parse_and_check_event(data)
                   k == nread[c] + 1
               IN /\ event' = [event EXCEPT ![c] = ev]
                  /\ IF ev = NoEvent
                     THEN /\ pc' = [pc EXCEPT ![c] = "done"]
                          /\ Log(c, <<Op("read", k, NoKey), Op("close", k, NoKey)>>)
                          /\ UNCHANGED wbuf
                     ELSE /\ pc' = [pc EXCEPT ![c] = "drain"]
                          /\ Log(c, <<Op("read", k, NoKey), Op("write", k, NoKey)>>)
                          /\ wbuf' = [wbuf EXCEPT ![c] =
                                         Append(@, Clear(create_response(ev)))]
    /\ UNCHANGED oh
    /\ UNCHANGED <<protocol, accounts, shutdown_flag, counts, sinks, udp_vars>>

\* TCP_read_data with the response put off: the response to an event is
\* written only when the following read has returned.
TCP_read_data_deferred(c, data, at_eof) ==
    /\ protocol = "TCP"
    /\ pc[c] = "read"
    /\ sent' = [sent EXCEPT ![c] = @ + LexableFrames(data)]
    /\ partial' = [partial EXCEPT ![c] = EndsPartial(data, @)]
    /\ IF data = EMPTY_BYTES \/ at_eof
       THEN /\ close(c, <<Op("eof", nread[c] + 1, NoKey)>>)
            /\ UNCHANGED <<event, nread, wbuf>>
       ELSE /\ TotalReads < MaxReads
            /\ nread' = [nread EXCEPT ![c] = @ + 1]
            /\ LET ev == parse_and_check_event(data)
                   k == nread[c] + 1
               IN /\ event' = [event EXCEPT ![c] = ev]
                  /\ pc' = [pc EXCEPT ![c] = "loop"]
                  /\ IF event[c] = NoEvent
                     THEN /\ Log(c, <<Op("read", k, NoKey)>>)
                          /\ UNCHANGED wbuf
                     ELSE /\ Log(c, <<Op("read", k, NoKey), Op("write", k - 1, NoKey)>>)
                          /\ wbuf' = [wbuf EXCEPT ![c] =
                                         Append(@, Clear(create_response(event[c])))]
    /\ UNCHANGED oh
    /\ UNCHANGED <<protocol, accounts, shutdown_flag, counts, sinks, udp_vars>>

\* TCP_read_data without the `or reader.at_eof()`: bytes that arrive
\* together with the EOF are processed and the loop goes on.
TCP_read_data_ignores_eof(c, data, at_eof) ==
    /\ protocol = "TCP"
    /\ pc[c] = "read"
    /\ sent' = [sent EXCEPT ![c] = @ + LexableFrames(data)]
    /\ partial' = [partial EXCEPT ![c] = EndsPartial(data, @)]
    /\ IF data = EMPTY_BYTES
       THEN /\ close(c, <<Op("eof", nread[c] + 1, NoKey)>>)
            /\ UNCHANGED <<event, nread, wbuf>>
       ELSE /\ TotalReads < MaxReads
            /\ nread' = [nread EXCEPT ![c] = @ + 1]
            /\ LET ev == parse_and_check_event(data)
                   k == nread[c] + 1
                   rd == IF at_eof
                         THEN <<Op("eof", k, NoKey), Op("read", k, NoKey)>>
                         ELSE <<Op("read", k, NoKey)>>
               IN /\ event' = [event EXCEPT ![c] = ev]
                  /\ IF ev = NoEvent
                     THEN /\ pc' = [pc EXCEPT ![c] = "loop"]
                          /\ Log(c, rd)
                          /\ UNCHANGED wbuf
                     ELSE /\ pc' = [pc EXCEPT ![c] = "drain"]
                          /\ Log(c, rd \o <<Op("write", k, NoKey)>>)
                          /\ wbuf' = [wbuf EXCEPT ![c] =
                                         Append(@, Clear(create_response(ev)))]
    /\ UNCHANGED oh
    /\ UNCHANGED <<protocol, accounts, shutdown_flag, counts, sinks, udp_vars>>

\* reader.read(1000) returns `data`, with reader.at_eof() = at_eof.  Empty
\* data or EOF: break, writer.close().  Otherwise the pipeline runs on the
\* data; no event: continue; an event: its response is written and the
\* coroutine waits in writer.drain().
TCP_read_data(c, data, at_eof) ==
    /\ protocol = "TCP"
    /\ pc[c] = "read"
    /\ sent' = [sent EXCEPT ![c] = @ + LexableFrames(data)]
    /\ partial' = [partial EXCEPT ![c] = EndsPartial(data, @)]
    /\ IF data = EMPTY_BYTES \/ at_eof
       THEN /\ close(c, <<Op("eof", nread[c] + 1, NoKey)>>)
            /\ UNCHANGED <<event, nread, wbuf>>
       ELSE /\ TotalReads < MaxReads
            /\ nread' = [nread EXCEPT ![c] = @ + 1]
            /\ LET ev == parse_and_check_event(data)
                   k == nread[c] + 1
               IN /\ event' = [event EXCEPT ![c] = ev]
                  /\ IF ev = NoEvent
                     THEN /\ pc' = [pc EXCEPT ![c] = "loop"]
                          /\ Log(c, <<Op("read", k, NoKey)>>)
                          /\ UNCHANGED wbuf
                     ELSE /\ pc' = [pc EXCEPT ![c] = "drain"]
                          /\ Log(c, <<Op("read", k, NoKey), Op("write", k, NoKey)>>)
                          /\ wbuf' = [wbuf EXCEPT ![c] =
                                         Append(@, Clear(create_response(ev)))]
    /\ UNCHANGED oh
    /\ UNCHANGED <<protocol, accounts, shutdown_flag, counts, sinks, udp_vars>>

\* TCP_drain handing the event to the user sink itself instead of to
\* async_func_wrap.
TCP_drain_calls_sink(c) ==
    /\ protocol = "TCP"
    /\ pc[c] = "drain"
    /\ pc' = [pc EXCEPT ![c] = "wrap"]
    /\ wbuf' = [wbuf EXCEPT ![c] = <<>>]
    /\ Log(c, <<Op("drain", nread[c], NoKey)>>)
    /\ sinks' = [sinks EXCEPT ![c] = Append(@, [k |-> nread[c], st |-> "running"])]
    /\ UNCHANGED <<oh, event, nread, sent, partial>>
    /\ UNCHANGED <<protocol, accounts, shutdown_flag, counts, udp_vars>>

\* writer.drain() completes; async_func_wrap(event) is called.
TCP_drain(c) ==
    /\ protocol = "TCP"
    /\ pc[c] = "drain"
    /\ pc' = [pc EXCEPT ![c] = "wrap"]
    /\ wbuf' = [wbuf EXCEPT ![c] = <<>>]
    /\ Log(c, <<Op("drain", nread[c], NoKey)>>)
    /\ sinks' = async_func_wrap(c, nread[c], event[c])
    /\ UNCHANGED <<oh, event, nread, sent, partial>>
    /\ UNCHANGED <<protocol, accounts, shutdown_flag, counts, udp_vars>>

\* writer.drain() raises ConnectionResetError: nothing catches it, the
\* coroutine ends with the exception and never reaches writer.close().
TCP_drain_reset(c) ==
    /\ protocol = "TCP"
    /\ pc[c] = "drain"
    /\ pc' = [pc EXCEPT ![c] = "crashed"]
    /\ UNCHANGED <<oh, event, nread, sent, partial, trace, wbuf>>
    /\ UNCHANGED <<protocol, accounts, shutdown_flag, counts, sinks, udp_vars>>

\* TCP_wrap without the wrapper's try/except: an exception of the user sink
\* comes out of `await self.async_func_wrap(event)` and ends handle_line.
TCP_wrap_sink_propagates(c) ==
    /\ protocol = "TCP"
    /\ pc[c] = "wrap"
    /\ pc' = [pc EXCEPT ![c] =
                IF \E i \in DOMAIN sinks[c] :
                      sinks[c][i].k = nread[c] /\ sinks[c][i].st = "raised"
                THEN "crashed" ELSE "loop"]
    /\ event' = [event EXCEPT ![c] = NoEvent]
    /\ UNCHANGED <<oh, nread, sent, partial, trace, wbuf>>
    /\ UNCHANGED <<protocol, accounts, shutdown_flag, counts, sinks, udp_vars>>

\* TCP_wrap awaiting the user sink itself: the loop goes on only when the
\* sink invoked for the event has completed.
TCP_wrap_awaits_sink(c) ==
    /\ protocol = "TCP"
    /\ pc[c] = "wrap"
    /\ \A i \in DOMAIN sinks[c] : sinks[c][i].st # "running"
    /\ pc' = [pc EXCEPT ![c] = "loop"]
    /\ event' = [event EXCEPT ![c] = NoEvent]
    /\ UNCHANGED <<oh, nread, sent, partial, trace, wbuf>>
    /\ UNCHANGED <<protocol, accounts, shutdown_flag, counts, sinks, udp_vars>>

\* `await self.async_func_wrap(event)` returns: back to the loop head.
TCP_wrap(c) ==
    /\ protocol = "TCP"
    /\ pc[c] = "wrap"
    /\ async_func_wrap_returns(c)
    /\ pc' = [pc EXCEPT ![c] = "loop"]
    /\ event' = [event EXCEPT ![c] = NoEvent]
    /\ UNCHANGED <<oh, nread, sent, partial, trace, wbuf>>
    /\ UNCHANGED <<protocol, accounts, shutdown_flag, counts, sinks, udp_vars>>

\* -------------------------------------------- SIAServerOH.handle_line
\* The data a peer can put on an OH connection: bytes wrapped with a key.
OHChunks == {[key |-> key, body |-> body] : key \in Keys, body \in Chunks}
OHEmpty == [key |-> NoKey, body |-> EMPTY_BYTES]

\* OH_accept with one OsborneHoffman context kept on the server object:
\* each accept replaces it, for the connections already open too.
OH_accept_shared_context(c) ==
    /\ protocol = "OH"
    /\ pc[c] = "idle"
    /\ \E scrambled_key \in NewKeys({oh[d] : d \in Conns} \ {NoKey}) :
          oh' = [d \in Conns |-> IF d = c \/ oh[d] # NoKey
                                 THEN scrambled_key ELSE oh[d]]
    /\ pc' = [pc EXCEPT ![c] = "init"]
    /\ UNCHANGED <<event, nread, sent, partial, trace, wbuf>>
    /\ UNCHANGED <<protocol, accounts, shutdown_flag, counts, sinks, udp_vars>>

\* A connection is accepted: handle_line makes its own OsborneHoffman()
\* context, takes the scrambled key from it and waits in writer.drain().
OH_accept(c) ==
    /\ protocol = "OH"
    /\ pc[c] = "idle"
    /\ \E scrambled_key \in NewKeys({oh[d] : d \in Conns} \ {NoKey}) :
          oh' = [oh EXCEPT ![c] = scrambled_key]
    /\ pc' = [pc EXCEPT ![c] = "init"]
    /\ UNCHANGED <<event, nread, sent, partial, trace, wbuf>>
    /\ UNCHANGED <<protocol, accounts, shutdown_flag, counts, sinks, udp_vars>>

\* The writer.drain() before the loop completes.
OH_init_drain(c) ==
    /\ protocol = "OH"
    /\ pc[c] = "init"
    /\ pc' = [pc EXCEPT ![c] = "loop"]
    /\ wbuf' = [wbuf EXCEPT ![c] = <<>>]
    /\ Log(c, <<Op("drain", 0, NoKey)>>)
    /\ UNCHANGED <<oh, event, nread, sent, partial>>
    /\ UNCHANGED <<protocol, accounts, shutdown_flag, counts, sinks, udp_vars>>

\* The writer.drain() before the loop raises ConnectionResetError.
OH_init_drain_reset(c) ==
    /\ protocol = "OH"
    /\ pc[c] = "init"
    /\ pc' = [pc EXCEPT ![c] = "crashed"]
    /\ UNCHANGED <<oh, event, nread, sent, partial, trace, wbuf>>
    /\ UNCHANGED <<protocol, accounts, shutdown_flag, counts, sinks, udp_vars>>

\* The loop head; when the flag is clear the scrambled key is written and
\* the read is issued.
OH_loop(c) ==
    /\ protocol = "OH"
    /\ pc[c] = "loop"
    /\ IF shutdown_flag
       THEN /\ close(c, <<>>)
            /\ UNCHANGED wbuf
       ELSE /\ pc' = [pc EXCEPT ![c] = "read"]
            /\ wbuf' = [wbuf EXCEPT ![c] = Append(@, Clear(oh[c]))]
            /\ Log(c, <<Op("write_key", nread[c] + 1, NoKey)>>)
    /\ UNCHANGED <<oh, event, nread, sent, partial>>
    /\ UNCHANGED <<protocol, accounts, shutdown_flag, counts, sinks, udp_vars>>

\* reader.read(1000) raises ConnectionResetError: break, writer.close().
OH_read_reset(c) ==
    /\ protocol = "OH"
    /\ pc[c] = "read"
    /\ close(c, <<Op("reset", nread[c] + 1, NoKey)>>)
    /\ UNCHANGED <<oh, event, nread, sent, partial, wbuf>>
    /\ UNCHANGED <<protocol, accounts, shutdown_flag, counts, sinks, udp_vars>>

\* OH_read_data without `response = oh.encrypt_data(response)`: the response
\* is written as create_response gives it.
OH_read_data_plain_response(c, data, at_eof) ==
    /\ protocol = "OH"
    /\ pc[c] = "read"
    /\ sent' = [sent EXCEPT ![c] = @ + LexableFrames(decrypt_data(oh[c], data))]
    /\ UNCHANGED partial
    /\ IF data.body = EMPTY_BYTES \/ at_eof
       THEN /\ close(c, <<Op("eof", nread[c] + 1, NoKey)>>)
            /\ UNCHANGED <<event, nread, wbuf>>
       ELSE /\ TotalReads < MaxReads
            /\ nread' = [nread EXCEPT ![c] = @ + 1]
            /\ LET ev == parse_and_check_event(decrypt_data(oh[c], data))
                   k == nread[c] + 1
               IN /\ event' = [event EXCEPT ![c] = ev]
                  /\ IF ev = NoEvent
                     THEN /\ pc' = [pc EXCEPT ![c] = "loop"]
                          /\ Log(c, <<Op("read", k, NoKey)>>)
                          /\ UNCHANGED wbuf
                     ELSE /\ pc' = [pc EXCEPT ![c] = "drain"]
                          /\ Log(c, <<Op("read", k, NoKey), Op("write", k, NoKey)>>)
                          /\ wbuf' = [wbuf EXCEPT ![c] =
                                         Append(@, Clear(create_response(ev)))]
    /\ UNCHANGED oh
    /\ UNCHANGED <<protocol, accounts, shutdown_flag, counts, sinks, udp_vars>>

\* reader.read(1000) returns `data`.  Empty data or EOF: break and close.
\* Otherwise the data is OH-decrypted and the pipeline runs on it; an
\* event's response is OH-encrypted and written, then writer.drain().
OH_read_data(c, data, at_eof) ==
    /\ protocol = "OH"
    /\ pc[c] = "read"
    /\ sent' = [sent EXCEPT ![c] = @ + LexableFrames(decrypt_data(oh[c], data))]
    /\ UNCHANGED partial
    /\ IF data.body = EMPTY_BYTES \/ at_eof
       THEN /\ close(c, <<Op("eof", nread[c] + 1, NoKey)>>)
            /\ UNCHANGED <<event, nread, wbuf>>
       ELSE /\ TotalReads < MaxReads
            /\ nread' = [nread EXCEPT ![c] = @ + 1]
            /\ LET ev == parse_and_check_event(decrypt_data(oh[c], data))
                   k == nread[c] + 1
               IN /\ event' = [event EXCEPT ![c] = ev]
                  /\ IF ev = NoEvent
                     THEN /\ pc' = [pc EXCEPT ![c] = "loop"]
                          /\ Log(c, <<Op("read", k, NoKey)>>)
                          /\ UNCHANGED wbuf
                     ELSE /\ pc' = [pc EXCEPT ![c] = "drain"]
                          /\ Log(c, <<Op("read", k, NoKey), Op("write", k, oh[c])>>)
                          /\ wbuf' = [wbuf EXCEPT ![c] = Append(@,
                                         encrypt_data(oh[c], create_response(ev)))]
    /\ UNCHANGED oh
    /\ UNCHANGED <<protocol, accounts, shutdown_flag, counts, sinks, udp_vars>>

\* writer.drain() completes; async_func_wrap(event) is called.
OH_drain(c) ==
    /\ protocol = "OH"
    /\ pc[c] = "drain"
    /\ pc' = [pc EXCEPT ![c] = "wrap"]
    /\ wbuf' = [wbuf EXCEPT ![c] = <<>>]
    /\ Log(c, <<Op("drain", nread[c], NoKey)>>)
    /\ sinks' = async_func_wrap(c, nread[c], event[c])
    /\ UNCHANGED <<oh, event, nread, sent, partial>>
    /\ UNCHANGED <<protocol, accounts, shutdown_flag, counts, udp_vars>>

\* writer.drain() raises ConnectionResetError: the coroutine ends with the
\* exception and never reaches writer.close().
OH_drain_reset(c) ==
    /\ protocol = "OH"
    /\ pc[c] = "drain"
    /\ pc' = [pc EXCEPT ![c] = "crashed"]
    /\ UNCHANGED <<oh, event, nread, sent, partial, trace, wbuf>>
    /\ UNCHANGED <<protocol, accounts, shutdown_flag, counts, sinks, udp_vars>>

\* `await self.async_func_wrap(event)` returns: back to the loop head.
OH_wrap(c) ==
    /\ protocol = "OH"
    /\ pc[c] = "wrap"
    /\ async_func_wrap_returns(c)
    /\ pc' = [pc EXCEPT ![c] = "loop"]
    /\ event' = [event EXCEPT ![c] = NoEvent]
    /\ UNCHANGED <<oh, nread, sent, partial, trace, wbuf>>
    /\ UNCHANGED <<protocol, accounts, shutdown_flag, counts, sinks, udp_vars>>

\* ------------------------------------------------------- SIAServerUDP
\* One call of the protocol object.
UOp(op, k, addr, bytes) == [op |-> op, k |-> k, addr |-> addr, data |-> bytes]

\* connection_made(transport): the event loop calls it once, before any
\* datagram is delivered.
connection_made ==
    /\ protocol = "UDP"
    /\ transport = "none"
    /\ transport' = "open"
    /\ UNCHANGED <<protocol, accounts, shutdown_flag, counts, conn_vars, sinks, ndgram,
                   tasks, udplog>>

\* datagram_received answering to an address kept from the first datagram
\* instead of the address of the datagram at hand.
datagram_received_stale_addr(data, addr) ==
    /\ protocol = "UDP"
    /\ transport = "open"
    /\ ndgram < MaxDatagrams
    /\ ndgram' = ndgram + 1
    /\ LET ev == parse_and_check_event(data)
           k == ndgram + 1
           to == IF udplog = <<>> THEN addr ELSE udplog[1].addr
           rcv == UOp("datagram", k, addr, ev.response)
           snd == IF transport # "none"
                  THEN <<UOp("sendto", k, to, create_response(ev))>>
                  ELSE <<>>
       IN IF ev = NoEvent
          THEN /\ udplog' = Append(udplog, rcv)
               /\ UNCHANGED tasks
          ELSE /\ udplog' = (Append(udplog, rcv) \o snd)
                                \o <<UOp("create_task", k, addr, "-")>>
               /\ tasks' = Append(tasks, [k |-> k, event |-> ev, st |-> "pending"])
    /\ UNCHANGED <<protocol, accounts, shutdown_flag, counts, conn_vars, sinks, transport>>

\* datagram_received(data, addr): the pipeline runs on the datagram; no
\* event: return.  Otherwise the response is sent to addr when there is a
\* transport, and a task is made for async_func_wrap(event).
datagram_received(data, addr) ==
    /\ protocol = "UDP"
    /\ transport = "open"
    /\ ndgram < MaxDatagrams
    /\ ndgram' = ndgram + 1
    /\ LET ev == parse_and_check_event(data)
           k == ndgram + 1
           rcv == UOp("datagram", k, addr, ev.response)
           snd == IF transport # "none"
                  THEN <<UOp("sendto", k, addr, create_response(ev))>>
                  ELSE <<>>
       IN IF ev = NoEvent
          THEN /\ udplog' = Append(udplog, rcv)
               /\ UNCHANGED tasks
          ELSE /\ udplog' = (Append(udplog, rcv) \o snd)
                                \o <<UOp("create_task", k, addr, "-")>>
               /\ tasks' = Append(tasks, [k |-> k, event |-> ev, st |-> "pending"])
    /\ UNCHANGED <<protocol, accounts, shutdown_flag, counts, conn_vars, sinks, transport>>

\* A task made by datagram_received runs async_func_wrap(event).
task_run(i) ==
    /\ tasks[i].st = "pending"
    /\ tasks' = [tasks EXCEPT ![i].st = "run"]
    /\ sinks' = async_func_wrap("udp", tasks[i].k, tasks[i].event)
    /\ UNCHANGED <<protocol, accounts, shutdown_flag, counts, conn_vars, transport,
                   ndgram, udplog>>

\* connection_lost(exc): the transport is closed when there is one; the
\* attribute keeps referring to it.
connection_lost ==
    /\ protocol = "UDP"
    /\ transport = "open"
    /\ transport' = (IF transport # "none" THEN "closed" ELSE transport)
    /\ udplog' = (IF transport # "none"
                  THEN Append(udplog, UOp("close", ndgram, "-", "-"))
                  ELSE udplog)
    /\ UNCHANGED <<protocol, accounts, shutdown_flag, counts, conn_vars, sinks, ndgram,
                   tasks>>

Next ==
    \/ shutdown
    \/ \E src \in Sources : \E i \in DOMAIN sinks[src] : sink_returns(src, i)
    \/ \E src \in Sources : \E i \in DOMAIN sinks[src] : sink_raises(src, i)
    \/ \E c \in Conns : TCP_accept(c)
    \/ \E c \in Conns : TCP_loop(c)
    \/ \E c \in Conns : TCP_read_reset(c)
    \/ \E c \in Conns, data \in Chunks \cup {EMPTY_BYTES}, at_eof \in BOOLEAN :
          TCP_read_data(c, data, at_eof)
    \/ \E c \in Conns : TCP_drain(c)
    \/ \E c \in Conns : TCP_drain_reset(c)
    \/ \E c \in Conns : TCP_wrap(c)
    \/ \E c \in Conns : OH_accept(c)
    \/ \E c \in Conns : OH_init_drain(c)
    \/ \E c \in Conns : OH_init_drain_reset(c)
    \/ \E c \in Conns : OH_loop(c)
    \/ \E c \in Conns : OH_read_reset(c)
    \/ \E c \in Conns, data \in OHChunks \cup {OHEmpty}, at_eof \in BOOLEAN :
          OH_read_data(c, data, at_eof)
    \/ \E c \in Conns : OH_drain(c)
    \/ \E c \in Conns : OH_drain_reset(c)
    \/ \E c \in Conns : OH_wrap(c)
    \/ connection_made
    \/ \E data \in Chunks \cup {EMPTY_BYTES}, addr \in Addrs :
          datagram_received(data, addr)
    \/ \E i \in DOMAIN tasks : task_run(i)
    \/ connection_lost

Spec == Init /\ [][Next]_vars

\* ------------------------------------------------ TCP stream framing
\* A TCP server whose peers' byte streams are cut by read(1000) at any
\* place: a read can carry several frames or a part of one.
FramingInit == Init /\ protocol = "TCP"

FramingNext ==
    \/ shutdown
    \/ \E src \in Sources : \E i \in DOMAIN sinks[src] : sink_returns(src, i)
    \/ \E src \in Sources : \E i \in DOMAIN sinks[src] : sink_raises(src, i)
    \/ \E c \in Conns : TCP_accept(c)
    \/ \E c \in Conns : TCP_loop(c)
    \/ \E c \in Conns : TCP_read_reset(c)
    \/ \E c \in Conns, data \in StreamChunks \cup {EMPTY_BYTES}, at_eof \in BOOLEAN :
          FitsStream(data, partial[c]) /\ TCP_read_data(c, data, at_eof)
    \/ \E c \in Conns : TCP_drain(c)
    \/ \E c \in Conns : TCP_drain_reset(c)
    \/ \E c \in Conns : TCP_wrap(c)

FramingSpec == FramingInit /\ [][FramingNext]_vars

\* --------------------------------------------- OH servers, configured
\* An OH server constructed with accounts of either seed.
KeyInit ==
    /\ protocol = "OH"
    /\ accounts \in Seeds
    /\ shutdown_flag = FALSE
    /\ counts = [user_code |-> 0]
    /\ pc = [c \in Conns |-> "idle"]
    /\ oh = [c \in Conns |-> NoKey]
    /\ event = [c \in Conns |-> NoEvent]
    /\ nread = [c \in Conns |-> 0]
    /\ sent = [c \in Conns |-> 0]
    /\ partial = [c \in Conns |-> FALSE]
    /\ trace = [c \in Conns |-> <<>>]
    /\ wbuf = [c \in Conns |-> <<>>]
    /\ sinks = [src \in Sources |-> <<>>]
    /\ transport = "none"
    /\ ndgram = 0
    /\ tasks = <<>>
    /\ udplog = <<>>

KeyNext ==
    \/ shutdown
    \/ \E src \in Sources : \E i \in DOMAIN sinks[src] : sink_returns(src, i)
    \/ \E src \in Sources : \E i \in DOMAIN sinks[src] : sink_raises(src, i)
    \/ \E c \in Conns : OH_accept(c)
    \/ \E c \in Conns : OH_init_drain(c)
    \/ \E c \in Conns : OH_init_drain_reset(c)
    \/ \E c \in Conns : OH_loop(c)
    \/ \E c \in Conns : OH_read_reset(c)
    \/ \E c \in Conns, data \in OHChunks \cup {OHEmpty}, at_eof \in BOOLEAN :
          OH_read_data(c, data, at_eof)
    \/ \E c \in Conns : OH_drain(c)
    \/ \E c \in Conns : OH_drain_reset(c)
    \/ \E c \in Conns : OH_wrap(c)

KeySpec == KeyInit /\ [][KeyNext]_vars

\* ----------------------------------------- stream servers, scheduled
\* The event loop runs every step of a handle_line task that is ready: the
\* loop head, the return of drain() (or its exception) and the return of
\* async_func_wrap.  When a read returns is up to the peer.
StreamInit == Init /\ protocol \in {"TCP", "OH"}

StreamNext ==
    \/ shutdown
    \/ \E src \in Sources : \E i \in DOMAIN sinks[src] : sink_returns(src, i)
    \/ \E src \in Sources : \E i \in DOMAIN sinks[src] : sink_raises(src, i)
    \/ \E c \in Conns : TCP_accept(c)
    \/ \E c \in Conns : TCP_loop(c)
    \/ \E c \in Conns : TCP_read_reset(c)
    \/ \E c \in Conns, data \in Chunks \cup {EMPTY_BYTES}, at_eof \in BOOLEAN :
          TCP_read_data(c, data, at_eof)
    \/ \E c \in Conns : TCP_drain(c)
    \/ \E c \in Conns : TCP_drain_reset(c)
    \/ \E c \in Conns : TCP_wrap(c)
    \/ \E c \in Conns : OH_accept(c)
    \/ \E c \in Conns : OH_init_drain(c)
    \/ \E c \in Conns : OH_init_drain_reset(c)
    \/ \E c \in Conns : OH_loop(c)
    \/ \E c \in Conns : OH_read_reset(c)
    \/ \E c \in Conns, data \in OHChunks \cup {OHEmpty}, at_eof \in BOOLEAN :
          OH_read_data(c, data, at_eof)
    \/ \E c \in Conns : OH_drain(c)
    \/ \E c \in Conns : OH_drain_reset(c)
    \/ \E c \in Conns : OH_wrap(c)

TaskFairness ==
    \A c \in Conns :
        /\ WF_vars(TCP_loop(c))
        /\ WF_vars(TCP_drain(c) \/ TCP_drain_reset(c))
        /\ WF_vars(TCP_wrap(c))
        /\ WF_vars(OH_init_drain(c) \/ OH_init_drain_reset(c))
        /\ WF_vars(OH_loop(c))
        /\ WF_vars(OH_drain(c) \/ OH_drain_reset(c))
        /\ WF_vars(OH_wrap(c))

LiveSpec == StreamInit /\ [][StreamNext]_vars /\ TaskFairness

\* ------------------------------------------------------------ claims
\* Positions of the calls `op` of iteration k in a connection's trace.
At(c, op, k) == {j \in DOMAIN trace[c] : trace[c][j].op = op /\ trace[c][j].k = k}
\* Positions of the calls `op` for datagram k in the UDP log.
UAt(op, k) == {j \in DOMAIN udplog : udplog[j].op = op /\ udplog[j].k = k}

\* C1: on every transport the user sink is invoked for an event only after
\* the event's response was handed to the transport (writer.write, sendto);
\* on TCP and OH the drain() that follows that write has completed too.
C1_SinkAfterResponse ==
    /\ \A c \in Conns : \A i \in DOMAIN sinks[c] :
          \E w \in At(c, "write", sinks[c][i].k) :
          \E d \in At(c, "drain", sinks[c][i].k) : w < d
    /\ \A i \in DOMAIN sinks["udp"] : UAt("sendto", sinks["udp"][i].k) # {}

\* A sink is running for an event of a stream connection.
C1_Witness ==
    \E c \in Conns : \E i \in DOMAIN sinks[c] :
        sinks[c][i].st = "running" /\ pc[c] = "wrap"

\* C2: for every lexable frame the peer has sent on a TCP connection the
\* server has written exactly one response, however read(1000) cut the byte
\* stream: when the loop waits for the next read and no frame is half
\* sent, the responses written are as many as the lexable frames sent.
C2_OneResponsePerFrame ==
    \A c \in Conns :
        (protocol = "TCP" /\ pc[c] = "read" /\ ~partial[c])
            => Cardinality({j \in DOMAIN trace[c] : trace[c][j].op = "write"}) = sent[c]

\* C3: when the pipeline returns no event for the bytes received, the
\* handler writes no response and invokes no sink; a TCP or OH loop is not
\* closed by it but is back at its head, from where (the flag being clear)
\* it issues the next read; datagram_received just returns.
C3_NoEventNoResponse ==
    [][/\ \A c \in Conns :
            (pc[c] = "read" /\ nread'[c] = nread[c] + 1 /\ event'[c] = NoEvent)
                => /\ pc'[c] = "loop"
                   /\ wbuf'[c] = wbuf[c]
                   /\ sinks' = sinks
                   /\ trace'[c] = Append(trace[c], Op("read", nread'[c], NoKey))
       /\ \A c \in Conns :
            (pc[c] = "loop" /\ pc'[c] # "loop" /\ ~shutdown_flag) => pc'[c] = "read"
       /\ (ndgram' = ndgram + 1 /\ udplog'[Len(udplog) + 1].data = "none")
                => /\ Len(udplog') = Len(udplog) + 1
                   /\ tasks' = tasks
                   /\ sinks' = sinks
      ]_vars

\* A loop waits in its second read after bytes that gave no event and no
\* response.
C3_Witness ==
    \E c \in Conns :
        /\ pc[c] = "read" /\ nread[c] = 1 /\ event[c] = NoEvent
        /\ At(c, "write", 1) = {}

\* C4: the user sink is invoked only for an event whose response is ACK or
\* RSP; for an event answered NAK or DUH the response is written and the
\* sink is not called, on every transport.
C4_SinkOnlyAckRsp ==
    [][/\ \A c \in Conns :
            Len(sinks'[c]) > Len(sinks[c])
                => /\ event[c].response \in {"ACK", "RSP"}
                   /\ sinks'[c][Len(sinks'[c])].k = nread[c]
       /\ \A c \in Conns :
            (pc[c] = "drain" /\ pc'[c] = "wrap" /\ event[c].response \in {"NAK", "DUH"})
                => /\ At(c, "write", nread[c]) # {}
                   /\ sinks' = sinks
       /\ Len(sinks'["udp"]) > Len(sinks["udp"])
                => \E i \in DOMAIN tasks :
                      /\ tasks[i].st = "pending" /\ tasks'[i].st = "run"
                      /\ tasks[i].event.response \in {"ACK", "RSP"}
                      /\ sinks'["udp"][Len(sinks'["udp"])].k = tasks[i].k
       /\ \A i \in DOMAIN tasks :
            (tasks[i].st = "pending" /\ tasks'[i].st = "run"
                /\ tasks[i].event.response \in {"NAK", "DUH"})
                => /\ UAt("sendto", tasks[i].k) # {}
                   /\ sinks' = sinks
      ]_vars

\* A NAK or DUH response has been written and flushed, async_func_wrap
\* has been called for the event, and no sink was invoked.
C4_Witness ==
    \E c \in Conns :
        /\ pc[c] = "wrap" /\ event[c].response \in {"NAK", "DUH"}
        /\ At(c, "drain", nread[c]) # {}
        /\ sinks[c] = <<>>

C6_ResponsesInOrder ==
    \A c \in Conns :
        /\ \A i, j \in DOMAIN trace[c] :
              (i < j /\ trace[c][i].op \in {"read", "write"}
                     /\ trace[c][j].op \in {"read", "write"})
                  => /\ trace[c][i].k <= trace[c][j].k
                     /\ (trace[c][i].op = "write" => trace[c][i].k < trace[c][j].k)
        /\ \A j \in DOMAIN trace[c] :
              trace[c][j].op = "write"
                  => \E i \in At(c, "read", trace[c][j].k) : i < j

\* Two reads of one connection have both been answered.
C6_Witness ==
    \E c \in Conns : At(c, "write", 1) # {} /\ At(c, "write", 2) # {}

\* C7: after shutdown_flag is set, every TCP and OH connection loop
\* eventually exits and closes its writer.
C7_ShutdownCloses ==
    \A c \in Conns :
        (shutdown_flag /\ pc[c] \in {"init", "loop", "read", "drain", "wrap"})
            ~> (pc[c] = "done")

\* C8: once shutdown_flag is set no TCP or OH loop issues a new read: a
\* loop at its head exits and closes; only a read that was already issued
\* can still return and be processed, once per connection; a sink that is
\* running stays invoked and can complete.
C8_NoNewReadAfterShutdown ==
    [][shutdown_flag =>
        /\ \A c \in Conns :
              /\ pc'[c] = "read" => pc[c] = "read"
              /\ (pc[c] = "loop" /\ pc'[c] # "loop") => pc'[c] = "done"
              /\ nread'[c] # nread[c] => (pc[c] = "read" /\ pc'[c] \in {"loop", "drain"})
        /\ \A src \in Sources : \A i \in DOMAIN sinks[src] :
              sinks[src][i].st = "running"
                  => /\ ENABLED sink_returns(src, i)
                     /\ i \in DOMAIN sinks'[src]
                     /\ sinks'[src][i].st \in {"running", "done"}
                            \/ (sinks'[src][i].st = "raised" /\ counts' # counts)
      ]_vars

\* Under shutdown a loop has processed the read that was in flight, has
\* exited at its head and closed, and the sink of that read has completed.
C8_Witness ==
    \E c \in Conns :
        /\ shutdown_flag /\ pc[c] = "done" /\ Len(trace[c]) >= 2
        /\ trace[c][Len(trace[c])].op = "close"
        /\ trace[c][Len(trace[c]) - 1].op = "drain"
        /\ \E i \in DOMAIN sinks[c] : sinks[c][i].st = "done"

\* C9: when a read of a TCP or OH connection gives EOF or empty bytes or
\* raises a connection reset, that connection's loop exits and closes its
\* writer at once, with no response written and no sink invoked for that
\* read; the step changes nothing of any other connection.
C9_EofClosesOnlyThatConnection ==
    [][\A c \in Conns :
          (\E j \in DOMAIN trace'[c] :
              j > Len(trace[c]) /\ trace'[c][j].op \in {"eof", "reset"})
            => /\ pc[c] = "read" /\ pc'[c] = "done"
               /\ \E op \in {"eof", "reset"} :
                     trace'[c] = trace[c] \o <<Op(op, nread[c] + 1, NoKey),
                                               Op("close", nread[c] + 1, NoKey)>>
               /\ wbuf'[c] = wbuf[c] /\ nread' = nread /\ sinks' = sinks
               /\ \A d \in Conns \ {c} :
                     /\ pc'[d] = pc[d] /\ trace'[d] = trace[d]
                     /\ wbuf'[d] = wbuf[d] /\ event'[d] = event[d]
      ]_vars

\* One connection was closed by an EOF or a reset in its first read; the
\* other one is in its second iteration, its response written.
C9_Witness ==
    \E c, d \in Conns :
        /\ c # d
        /\ pc[c] = "done" /\ At(c, "eof", 1) \cup At(c, "reset", 1) # {}
        /\ pc[d] = "drain" /\ At(d, "write", 2) # {}

\* C10: for each datagram for which the pipeline returns an event exactly
\* one response datagram is sent, to the source address of that datagram,
\* before the task for async_func_wrap(event) is made; no response is sent
\* for anything else.
C10_OneResponseToSource ==
    /\ \A j \in DOMAIN udplog :
          (udplog[j].op = "datagram" /\ udplog[j].data # "none")
              => /\ Cardinality(UAt("sendto", udplog[j].k)) = 1
                 /\ Cardinality(UAt("create_task", udplog[j].k)) = 1
                 /\ \A snd \in UAt("sendto", udplog[j].k) :
                       /\ j < snd
                       /\ udplog[snd].addr = udplog[j].addr
                       /\ udplog[snd].data = udplog[j].data
                       /\ \A t \in UAt("create_task", udplog[j].k) : snd < t
    /\ \A snd \in DOMAIN udplog :
          udplog[snd].op = "sendto"
              => \E j \in UAt("datagram", udplog[snd].k) : udplog[j].data # "none"

\* Two datagrams from different addresses have both been answered.
C10_Witness ==
    \E i, j \in DOMAIN udplog :
        /\ udplog[i].op = "sendto" /\ udplog[j].op = "sendto"
        /\ i < j /\ udplog[i].addr # udplog[j].addr

\* C11: when the user sink raises for an event, the exception is caught
\* and errors.user_code goes up by one (and only then); the step ends no
\* connection loop and takes back nothing that was written, and the loop
\* that waits for async_func_wrap of that event goes back to its head, from
\* where it reads the next frame.
C11_SinkRaiseCounted ==
    [][/\ \A src \in Sources : \A i \in DOMAIN sinks[src] :
            (sinks[src][i].st = "running" /\ sinks'[src][i].st = "raised")
                => /\ counts'.user_code = counts.user_code + 1
                   /\ pc' = pc /\ trace' = trace /\ wbuf' = wbuf
                   /\ udplog' = udplog
       /\ counts' # counts
            => \E src \in Sources : \E i \in DOMAIN sinks[src] :
                  sinks[src][i].st = "running" /\ sinks'[src][i].st = "raised"
       /\ \A c \in Conns :
            (/\ pc[c] = "wrap" /\ pc'[c] # "wrap"
             /\ \E i \in DOMAIN sinks[c] :
                   sinks[c][i].k = nread[c] /\ sinks[c][i].st = "raised")
                => /\ pc'[c] = "loop"
                   /\ trace'[c] = trace[c]
                   /\ At(c, "write", nread[c]) # {}
      ]_vars

\* The sink of the event of read 1 has raised and was counted; the response
\* to read 1 stands and the loop has read its next frame.
C11_Witness ==
    \E c \in Conns :
        /\ \E i \in DOMAIN sinks[c] : sinks[c][i].k = 1 /\ sinks[c][i].st = "raised"
        /\ counts.user_code >= 1
        /\ pc[c] # "crashed"
        /\ At(c, "write", 1) # {} /\ At(c, "read", 2) # {}

\* C12: a frame that is well formed but for its message type, which is none
\* of SIA-DCS, ADM-CID and NULL (FOO), is lexed by MAIN_MATCHER and answered
\* DUH: the read that brings it yields an event whose response DUH is
\* written, and no sink is invoked.
C12_UnknownTypeAnsweredDuh ==
    [][\A c \in Conns :
          (nread'[c] # nread[c] /\ TCP_read_data(c, <<PWhole(FFoo)>>, FALSE))
            => /\ MAIN_MATCHER(PWhole(FFoo))
               /\ event'[c].response = "DUH"
               /\ trace'[c] = trace[c] \o <<Op("read", nread'[c], NoKey),
                                            Op("write", nread'[c], NoKey)>>
               /\ wbuf'[c] = Append(wbuf[c], Clear("DUH"))
               /\ sinks' = sinks
      ]_vars

\* C13: on an OH connection the scrambled key is written once on accept,
\* before the loop, and once more before each read of the loop: while
\* handle_line waits in the drain() before the loop one key write has been
\* made, and while it waits in the read of iteration k (k - 1 reads having
\* delivered data, answered or dropped) k + 1 key writes have been made.
C13_KeyWrittenOnAcceptAndBeforeEachRead ==
    \A c \in Conns :
        LET key_writes == {j \in DOMAIN trace[c] : trace[c][j].op = "write_key"}
        IN /\ (protocol = "OH" /\ pc[c] = "init") => Cardinality(key_writes) = 1
           /\ (protocol = "OH" /\ pc[c] = "read")
                  => Cardinality(key_writes) = nread[c] + 2

\* C14: on an OH connection, when the bytes a read delivers fail to
\* OH-decrypt (they were not wrapped with the connection's key), the loop
\* ends and writer.close() is called; no response is written and no sink is
\* invoked for those bytes.
C14_DecryptFailureCloses ==
    [][\A c \in Conns :
          (/\ nread'[c] # nread[c]
           /\ \E data \in OHChunks :
                 data.key # oh[c] /\ OH_read_data(c, data, FALSE))
            => /\ pc'[c] = "done"
               /\ trace'[c][Len(trace'[c])].op = "close"
               /\ \A j \in DOMAIN trace'[c] :
                     j > Len(trace[c]) => trace'[c][j].op # "write"
               /\ wbuf'[c] = wbuf[c]
               /\ sinks' = sinks
      ]_vars

\* C15: on an OH connection the pipeline sees the bytes of a read only
\* through decrypt_data (bytes wrapped with the connection's key give the
\* event of the frame inside, bytes wrapped with another key give none),
\* every response written is the event's response wrapped by encrypt_data
\* with the connection's key, and what is written besides is the scrambled
\* key and nothing else.
C15_OnlyOHWrappedTraffic ==
    [][/\ \A c \in Conns : \A data \in OHChunks :
            (nread'[c] # nread[c] /\ OH_read_data(c, data, FALSE))
              => /\ event'[c] = (IF data.key = oh[c]
                                 THEN parse_and_check_event(data.body)
                                 ELSE NoEvent)
                 /\ event'[c] # NoEvent
                      => /\ wbuf'[c] = Append(wbuf[c],
                               [key |-> oh[c], body |-> event'[c].response])
                         /\ trace'[c][Len(trace'[c])] = Op("write", nread'[c], oh[c])
       /\ (protocol = "OH" /\ wbuf' # wbuf)
            => \A c \in Conns : \A j \in DOMAIN wbuf'[c] :
                  \/ wbuf'[c][j] = [key |-> NoKey, body |-> oh'[c]]
                  \/ /\ wbuf'[c][j].key = oh'[c]
                     /\ wbuf'[c][j].body \in {"ACK", "NAK", "DUH", "RSP"}
      ]_vars

\* An OH connection dropped the bytes of its first read, and the wrapped
\* ACK to its second read waits in the writer behind the scrambled key.
C15_Witness ==
    \E c \in Conns :
        /\ protocol = "OH" /\ pc[c] = "drain" /\ nread[c] = 2
        /\ At(c, "write", 1) = {}
        /\ \E i, j \in DOMAIN wbuf[c] :
              /\ i < j
              /\ wbuf[c][i] = [key |-> NoKey, body |-> oh[c]]
              /\ wbuf[c][j] = [key |-> oh[c], body |-> "ACK"]

\* C16: OH state is per connection: a connection's scrambled key is set
\* once, when the connection is accepted, and never changes afterwards;
\* every key write, and every response written, on the connection uses that
\* key; and a step of one connection's task leaves the key of every other
\* connection as it was.
C16_OHStatePerConnection ==
    [][\A c \in Conns :
          /\ oh'[c] # oh[c]
                => /\ pc[c] = "idle" /\ pc'[c] = "init"
                   /\ oh[c] = NoKey /\ oh'[c] \in Keys
          /\ (protocol = "OH" /\ pc'[c] # "idle") => oh'[c] \in Keys
          /\ \A j \in DOMAIN wbuf'[c] :
                j > Len(wbuf[c])
                  => \/ wbuf'[c][j] = [key |-> NoKey, body |-> oh[c]]
                     \/ wbuf'[c][j].key = oh[c]
          /\ \A j \in DOMAIN trace'[c] :
                (j > Len(trace[c]) /\ trace'[c][j].op = "write")
                  => trace'[c][j].key = oh[c]
          /\ pc'[c] # pc[c]
                => \A d \in Conns \ {c} : oh'[d] = oh[d] /\ wbuf'[d] = wbuf[d]
      ]_vars

\* Two OH connections hold different keys, and each has written a response
\* wrapped with its own.
C16_Witness ==
    \E c, d \in Conns :
        /\ oh[c] \in Keys /\ oh[d] \in Keys /\ oh[c] # oh[d]
        /\ \E j \in DOMAIN wbuf[c] : wbuf[c][j].key = oh[c]
        /\ \E j \in DOMAIN wbuf[d] : wbuf[d][j].key = oh[d]

\* C17: the scrambled key an OH server writes on a connection is derived
\* from the OH seed of the accounts it was constructed with, different
\* seeds giving different keys: with the keys named after the seeds they
\* derive from (k1 from s1, k2 from s2), the key of every accepted
\* connection, and every key written on it, is the one of the server's seed.
C17_KeyDerivedFromAccountSeed ==
    \A c \in Conns :
        (protocol = "OH" /\ pc[c] # "idle")
            => /\ oh[c] = (IF accounts = "s1" THEN "k1" ELSE "k2")
               /\ \A j \in DOMAIN wbuf[c] :
                     wbuf[c][j].key = NoKey
                         => wbuf[c][j].body = (IF accounts = "s1" THEN "k1" ELSE "k2")

\* C18: connection_lost closes the transport and resets the reference to
\* it: once connection_lost has run the server holds no transport
\* (self.transport is None), and nothing is sent after the close.
C18_ConnectionLostResetsTransport ==
    \A j \in DOMAIN udplog :
        udplog[j].op = "close"
            => /\ transport = "none"
               /\ \A i \in DOMAIN udplog : i > j => udplog[i].op # "sendto"

\* C19: whenever a TCP or OH handle_line has stopped, by whatever path (the
\* flag, EOF or empty bytes, a reset raised by the read or by the drain of a
\* response), writer.close() was called exactly once on its connection, and
\* it is not called while the coroutine still runs.
C19_ClosedExactlyOnceOnExit ==
    \A c \in Conns :
        LET closes == {j \in DOMAIN trace[c] : trace[c][j].op = "close"}
        IN /\ pc[c] \in {"done", "crashed"} => Cardinality(closes) = 1
           /\ pc[c] \notin {"done", "crashed"} => closes = {}

====
